---- MODULE Spec2Model ----
(***************************************************************************)
(* A model of activitypub.py: the message authentication helpers of        *)
(* activitypub/helper.py (digest and HTTP-signature generation and         *)
(* verification) and the construction-time validation of the document      *)
(* classes of activitypub/model.py.                                        *)
(*                                                                         *)
(* Text is modelled as sequences: a body is a sequence of code points, a   *)
(* digest value is a sequence of one-character strings, a header value is  *)
(* a sequence of tokens.  The cryptographic primitives of the libraries    *)
(* the helpers call are modelled under the usual assumptions: SHA-256 is   *)
(* collision free on the bodies of the model, and an RSA signature is      *)
(* accepted exactly for the key pair and the message it was made with.     *)
(***************************************************************************)
EXTENDS Integers, Sequences, FiniteSets, TLC

\* Longest body, in characters.
MaxBody == 2

\* The characters a body is made of: "a" (U+0061) and "e acute" (U+00E9),
\* one that UTF-8 encodes in one byte and one that takes two.
BodyChars == {97, 233}

\* The marker of a request without a body.
NoBody == <<-1>>

Bodies == UNION {[1..n -> BodyChars] : n \in 0..MaxBody}

(***************************************************************************)
(* helper.py: generate_digest / verify_digest                              *)
(***************************************************************************)

\* str.encode(): the UTF-8 bytes of one code point (below U+0800).
Utf8Char(cp) ==
    IF cp < 128 THEN <<cp>>
    ELSE <<192 + (cp \div 64), 128 + (cp % 64)>>

RECURSIVE Utf8Encode(_)
Utf8Encode(s) ==
    IF s = <<>> THEN <<>>
    ELSE Utf8Char(Head(s)) \o Utf8Encode(Tail(s))

\* The size of a SHA-256 digest, in bytes.
DigestLen == 32

\* hashlib.sha256(bytes).digest(): a fixed-length digest.  The real
\* compression function is replaced by a byte-wise bijection of the
\* length-prefixed, zero-padded message, which is collision free for
\* messages shorter than DigestLen: the assumption made of SHA-256.
Sha256(bytes) ==
    LET padded == [i \in 1..DigestLen |->
                      IF i = 1 THEN Len(bytes)
                      ELSE IF i - 1 <= Len(bytes) THEN bytes[i - 1]
                      ELSE 0]
    IN [i \in 1..DigestLen |-> (padded[i] * 167 + 31 * i + 7) % 256]

B64Alphabet ==
    << "A","B","C","D","E","F","G","H","I","J","K","L","M","N","O","P",
       "Q","R","S","T","U","V","W","X","Y","Z","a","b","c","d","e","f",
       "g","h","i","j","k","l","m","n","o","p","q","r","s","t","u","v",
       "w","x","y","z","0","1","2","3","4","5","6","7","8","9","+","/" >>

Pow64(k) == IF k = 0 THEN 1 ELSE IF k = 1 THEN 64 ELSE IF k = 2 THEN 4096 ELSE 262144

\* base64.b64encode(bytes).decode(): three bytes become four characters,
\* the last group padded with "=".
B64Encode(bytes) ==
    LET n == Len(bytes)
        groups == (n + 2) \div 3
        byteAt(i) == IF i <= n THEN bytes[i] ELSE 0
        charAt(j) ==
            LET g == (j - 1) \div 4
                k == (j - 1) % 4
                v == byteAt(3 * g + 1) * 65536 + byteAt(3 * g + 2) * 256
                     + byteAt(3 * g + 3)
            IN IF k = 2 /\ 3 * g + 2 > n THEN "="
               ELSE IF k = 3 /\ 3 * g + 3 > n THEN "="
               ELSE B64Alphabet[((v \div Pow64(3 - k)) % 64) + 1]
    IN [j \in 1..(4 * groups) |-> charAt(j)]

\* generate_digest(raw_body): the pair (algorithm name, base64 digest).
generate_digest(raw_body) ==
    << << "S","H","A","-","2","5","6" >>,
       B64Encode(Sha256(Utf8Encode(raw_body))) >>

\* The value of a Digest header on the wire, SHA-256=<base64>, as a sender
\* composes it from the pair generate_digest returns.
DigestHeaderValue(raw_body) ==
    generate_digest(raw_body)[1] \o <<"=">> \o generate_digest(raw_body)[2]

\* A verify_digest that expects the header value, algorithm prefix included.
verify_digest_header(raw_body, received_digest) ==
    received_digest = DigestHeaderValue(raw_body)

\* A verify_digest that takes the digest with or without the prefix.
verify_digest_lenient(raw_body, received_digest) ==
    \/ received_digest = generate_digest(raw_body)[2]
    \/ received_digest = DigestHeaderValue(raw_body)

\* verify_digest(raw_body, received_digest).
verify_digest(raw_body, received_digest) ==
    LET b64_calculated_digest == generate_digest(raw_body)[2]
    IN received_digest = b64_calculated_digest

(***************************************************************************)
(* helper.py: generate_signature / verify_signature, and the httpsig       *)
(* HeaderSigner / HeaderVerifier they drive.                                *)
(***************************************************************************)

\* str.lower() on the names and methods of the model.
Lower(s) ==
    CASE s = "Digest" -> "digest"
      [] s = "Signature" -> "signature"
      [] s = "keyId" -> "keyid"
      [] s = "POST" -> "post"
      [] s = "GET" -> "get"
      [] OTHER -> s

\* httpsig's CaseInsensitiveDict(d): the same entries under lowercased keys.
\* (The dicts of the model never hold two keys that differ only in case.)
CaseInsensitiveDict(d) ==
    LET keys == {Lower(k) : k \in DOMAIN d}
    IN [k \in keys |-> d[CHOOSE o \in DOMAIN d : Lower(o) = k]]

\* ' '.join(names).
RECURSIVE JoinSpace(_)
JoinSpace(names) ==
    IF names = <<>> THEN <<>>
    ELSE IF Len(names) = 1 THEN names
    ELSE <<Head(names), " ">> \o JoinSpace(Tail(names))

\* text.split(' '): the fields between the spaces ('' for an empty field).
RECURSIVE SplitSpace(_)
SplitSpace(text) ==
    IF text = <<>> THEN <<"">>
    ELSE IF Head(text) = " " THEN <<"">> \o SplitSpace(Tail(text))
    ELSE IF Len(text) = 1 THEN text
    ELSE IF text[2] = " " THEN <<Head(text)>> \o SplitSpace(Tail(Tail(text)))
    ELSE <<Head(text)>> \o SplitSpace(Tail(text))

headers_to_sign_with_body ==
    << "(request-target)", "host", "date", "digest", "content-type" >>

headers_to_sign_without_body ==
    << "(request-target)", "host", "date", "content-type" >>

\* httpsig generate_message: the header names whose line cannot be built.
MissingHeaders(required_headers, hdrs, method, path) ==
    {required_headers[i] : i \in
        {j \in 1..Len(required_headers) :
            LET h == Lower(required_headers[j])
            IN IF h = "(request-target)" THEN method = "" \/ path = ""
               ELSE h \notin DOMAIN hdrs}}

\* httpsig generate_message: the signing string, one line per listed header
\* in the order listed, "(request-target)" expanding to the lowercased
\* method and the path.
generate_message(required_headers, hdrs, method, path) ==
    [i \in 1..Len(required_headers) |->
        LET h == Lower(required_headers[i])
        IN IF h = "(request-target)" THEN <<h, <<Lower(method), path>>>>
           ELSE <<h, hdrs[h]>>]

\* The private key of a public key.
PrivateOf(pub) == IF pub = "pubA" THEN "privA" ELSE "privB"

\* The RSA-SHA256 signature of a message, base64 encoded: its text names
\* the key and the message it was made with; flip is the position of a
\* byte changed since (0: none).
RsaSign(secret, message) == [signer |-> secret, over |-> message, flip |-> 0]

\* PKCS1_v1_5 verify of the decoded signature text.
RsaVerify(pub, message, signature) ==
    /\ signature.flip = 0
    /\ signature.signer = PrivateOf(pub)
    /\ signature.over = message

\* httpsig build_signature_template, filled in with the signature: the
\* parameters of the Signature header, in the order they are written.
build_signature(key_id, algorithm, hdrlist, signature) ==
    << <<"keyId", <<key_id>>>>,
       <<"algorithm", <<algorithm>>>>,
       <<"signature", <<signature>>>>,
       <<"headers", JoinSpace([i \in 1..Len(hdrlist) |-> Lower(hdrlist[i])])>> >>

\* generate_signature(url_path, key_id, secret, headers, algorithm, method):
\* the signed headers, or the exception HeaderSigner.sign raised.
generate_signature(url_path, key_id, secret, hdrs, algorithm, method) ==
    LET tosign == IF "digest" \in DOMAIN hdrs
                  THEN headers_to_sign_with_body
                  ELSE headers_to_sign_without_body
        cid == CaseInsensitiveDict(hdrs)
    IN IF MissingHeaders(tosign, cid, method, url_path) # {}
       THEN [raised |-> "Exception", headers |-> cid, signed |-> <<>>]
       ELSE LET signable == generate_message(tosign, cid, method, url_path)
                value == build_signature(key_id, algorithm, tosign,
                                         RsaSign(secret, signable))
            IN [raised |-> "",
                headers |-> [k \in DOMAIN cid \cup {"signature"} |->
                                IF k = "signature" THEN value ELSE cid[k]],
                signed |-> tosign]

\* re.search(r'headers="([^"]+)"', text): the positions of the parameters
\* the pattern matches.
ReSearchHeaders(text) ==
    {i \in 1..Len(text) : text[i][1] = "headers" /\ text[i][2] # <<>>}

\* httpsig parse_signature_header: the parameters as a case-insensitive
\* dict (a parameter written twice keeps its last value).
parse_signature_header(text) ==
    LET keys == {Lower(text[i][1]) : i \in 1..Len(text)}
        last(k) == CHOOSE i \in 1..Len(text) :
                      /\ Lower(text[i][1]) = k
                      /\ \A j \in (i + 1)..Len(text) : Lower(text[j][1]) # k
    IN [k \in keys |-> text[last(k)][2]]

\* The algorithms httpsig supports.
ALGORITHMS == {"rsa-sha1", "rsa-sha256", "rsa-sha512",
               "hmac-sha1", "hmac-sha256", "hmac-sha512"}

\* HeaderVerifier(...).verify() as verify_signature calls it: "True",
\* "False", or the name of the exception raised.
HeaderVerifier_verify(hdrs, method, path, secret, required_headers) ==
    LET cid == CaseInsensitiveDict(hdrs)
        auth_dict == parse_signature_header(cid["signature"])
    IN IF "algorithm" \notin DOMAIN auth_dict THEN "KeyError"
       ELSE IF auth_dict["algorithm"][1] \notin ALGORITHMS THEN "HttpSigException"
       ELSE LET auth_headers == IF "headers" \in DOMAIN auth_dict
                                THEN SplitSpace(auth_dict["headers"])
                                ELSE <<"date">>
                required == {Lower(required_headers[i]) :
                                i \in 1..Len(required_headers)}
                listed == {auth_headers[i] : i \in 1..Len(auth_headers)}
            IN IF required \ listed # {} THEN "Exception"
               ELSE IF MissingHeaders(auth_headers, cid, method, path) # {}
               THEN "Exception"
               ELSE IF "signature" \notin DOMAIN auth_dict THEN "KeyError"
               ELSE IF RsaVerify(secret,
                                 generate_message(auth_headers, cid, method, path),
                                 auth_dict["signature"][1])
               THEN "True" ELSE "False"

\* A verify_signature that does not hand its method to the verifier, which
\* then checks against the default, POST.
verify_signature_default_method(url_path, secret, hdrs, method) ==
    IF "signature" \notin DOMAIN hdrs THEN "TypeError"
    ELSE LET found == ReSearchHeaders(hdrs["signature"])
         IN IF found = {} THEN "False"
            ELSE LET first == CHOOSE i \in found : \A j \in found : i <= j
                     headers_to_sign == hdrs["signature"][first][2]
                 IN HeaderVerifier_verify(hdrs, "POST", url_path, secret,
                                          SplitSpace(headers_to_sign))

\* verify_signature(url_path, secret, headers, method): "True", "False", or
\* the name of the exception that escapes.
verify_signature(url_path, secret, hdrs, method) ==
    IF "signature" \notin DOMAIN hdrs THEN "TypeError"
    ELSE LET found == ReSearchHeaders(hdrs["signature"])
         IN IF found = {} THEN "False"
            ELSE LET first == CHOOSE i \in found : \A j \in found : i <= j
                     headers_to_sign == hdrs["signature"][first][2]
                 IN HeaderVerifier_verify(hdrs, method, url_path, secret,
                                          SplitSpace(headers_to_sign))

(***************************************************************************)
(* model.py: the document classes and what constructing one validates.     *)
(*                                                                         *)
(* A payload value is a JSON value: absent, null, a string (a sequence of  *)
(* tokens), an object (a dict) or a list of strings and dicts.             *)
(***************************************************************************)
JAbsent == [kind |-> "absent", s |-> <<>>, items |-> <<>>]
JNull == [kind |-> "null", s |-> <<>>, items |-> <<>>]
JStr(s) == [kind |-> "str", s |-> s, items |-> <<>>]
JDict(tag) == [kind |-> "dict", s |-> <<tag>>, items |-> <<>>]
JList(items) == [kind |-> "list", s |-> <<>>, items |-> items]
JMap(keys) == [kind |-> "map", s |-> keys, items |-> <<>>]
Item(kind, s) == [kind |-> kind, s |-> s]

\* The strings of the model.  A URL starts with its scheme token.
Canonical == << "https://", "www.w3.org/ns/activitystreams" >>
Security == << "https://", "w3id.org/security/v1" >>
OtherNs == << "https://", "example.com/ns" >>
Embedding == << "https://", "example.com/?ns=", "https://",
                "www.w3.org/ns/activitystreams" >>
ActorUri == << "https://", "a.example/users/alice" >>
NotAUrl == << "activitystreams" >>

\* needle in hay, for two Python strings.
StrContains(hay, needle) ==
    \E i \in 0..(Len(hay) - Len(needle)) :
        \A j \in 1..Len(needle) : hay[i + j] = needle[j]

\* pydantic's HttpUrl accepts a string that parses as an http(s) URL.
IsHttpUrl(s) == s # <<>> /\ s[1] \in {"https://", "http://"}

\* The classes of model.py: the base each extends, the annotation and the
\* default of the type field each declares ("" when it declares none), the
\* annotation of the object field each declares, and whether the class is a
\* leaf that declares its discriminator.
ClassDefs ==
    {
      [name |-> "ActivityStreamsBase", base |-> "BaseModel", type |-> "optstr", deflt |-> <<>>,
       object |-> "", leaf |-> FALSE],
      [name |-> "BaseObject", base |-> "ActivityStreamsBase", type |-> "str", deflt |-> <<>>,
       object |-> "", leaf |-> FALSE],
      [name |-> "BaseLink", base |-> "ActivityStreamsBase", type |-> "", deflt |-> <<>>,
       object |-> "", leaf |-> FALSE],
      [name |-> "BaseActivity", base |-> "BaseObject", type |-> "literal", deflt |-> <<>>,
       object |-> "refs", leaf |-> FALSE],
      [name |-> "IntransitiveActivity", base |-> "BaseActivity", type |-> "", deflt |-> <<>>,
       object |-> "none", leaf |-> FALSE],
      [name |-> "BaseCollection", base |-> "BaseObject", type |-> "str", deflt |-> <<"Collection">>,
       object |-> "", leaf |-> FALSE],
      [name |-> "OrderedCollection", base |-> "BaseCollection", type |-> "str", deflt |-> <<"OrderedCollection">>,
       object |-> "", leaf |-> FALSE],
      [name |-> "CollectionPage", base |-> "BaseCollection", type |-> "str", deflt |-> <<"CollectionPage">>,
       object |-> "", leaf |-> FALSE],
      [name |-> "OrderedCollectionPage", base |-> "CollectionPage", type |-> "str", deflt |-> <<"OrderedCollectionPage">>,
       object |-> "", leaf |-> FALSE],
      [name |-> "BaseActor", base |-> "ActivityStreamsBase", type |-> "str", deflt |-> <<>>,
       object |-> "", leaf |-> FALSE],
      [name |-> "AcceptActivity", base |-> "BaseActivity", type |-> "str", deflt |-> <<"Accept">>,
       object |-> "", leaf |-> TRUE],
      [name |-> "AddActivity", base |-> "BaseActivity", type |-> "str", deflt |-> <<"Add">>,
       object |-> "", leaf |-> TRUE],
      [name |-> "AnnounceActivity", base |-> "BaseActivity", type |-> "str", deflt |-> <<"Announce">>,
       object |-> "", leaf |-> TRUE],
      [name |-> "ArriveActivity", base |-> "IntransitiveActivity", type |-> "str", deflt |-> <<"Arrive">>,
       object |-> "", leaf |-> TRUE],
      [name |-> "CreateActivity", base |-> "BaseActivity", type |-> "str", deflt |-> <<"Create">>,
       object |-> "", leaf |-> TRUE],
      [name |-> "DeleteActivity", base |-> "BaseActivity", type |-> "str", deflt |-> <<"Delete">>,
       object |-> "", leaf |-> TRUE],
      [name |-> "DislikeActivity", base |-> "BaseActivity", type |-> "str", deflt |-> <<"Dislike">>,
       object |-> "", leaf |-> TRUE],
      [name |-> "FlagActivity", base |-> "BaseActivity", type |-> "str", deflt |-> <<"Flag">>,
       object |-> "", leaf |-> TRUE],
      [name |-> "FollowActivity", base |-> "BaseActivity", type |-> "str", deflt |-> <<"Follow">>,
       object |-> "", leaf |-> TRUE],
      [name |-> "IgnoreActivity", base |-> "BaseActivity", type |-> "str", deflt |-> <<"Ignore">>,
       object |-> "", leaf |-> TRUE],
      [name |-> "BlockActivity", base |-> "IgnoreActivity", type |-> "str", deflt |-> <<"Block">>,
       object |-> "", leaf |-> TRUE],
      [name |-> "JoinActivity", base |-> "BaseActivity", type |-> "str", deflt |-> <<"Join">>,
       object |-> "", leaf |-> TRUE],
      [name |-> "LeaveActivity", base |-> "BaseActivity", type |-> "str", deflt |-> <<"Leave">>,
       object |-> "", leaf |-> TRUE],
      [name |-> "LikeActivity", base |-> "BaseActivity", type |-> "str", deflt |-> <<"Like">>,
       object |-> "", leaf |-> TRUE],
      [name |-> "ListenActivity", base |-> "BaseActivity", type |-> "str", deflt |-> <<"Listen">>,
       object |-> "", leaf |-> TRUE],
      [name |-> "MoveActivity", base |-> "BaseActivity", type |-> "str", deflt |-> <<"Move">>,
       object |-> "", leaf |-> TRUE],
      [name |-> "OfferActivity", base |-> "BaseActivity", type |-> "str", deflt |-> <<"Offer">>,
       object |-> "", leaf |-> TRUE],
      [name |-> "InviteActivity", base |-> "OfferActivity", type |-> "str", deflt |-> <<"Invite">>,
       object |-> "", leaf |-> TRUE],
      [name |-> "QuestionActivity", base |-> "IntransitiveActivity", type |-> "str", deflt |-> <<"Question">>,
       object |-> "", leaf |-> TRUE],
      [name |-> "RejectActivity", base |-> "BaseActivity", type |-> "str", deflt |-> <<"Reject">>,
       object |-> "", leaf |-> TRUE],
      [name |-> "ReadActivity", base |-> "BaseActivity", type |-> "str", deflt |-> <<"Read">>,
       object |-> "", leaf |-> TRUE],
      [name |-> "RemoveActivity", base |-> "BaseActivity", type |-> "str", deflt |-> <<"Remove">>,
       object |-> "", leaf |-> TRUE],
      [name |-> "TentativeRejectActivity", base |-> "RejectActivity", type |-> "str", deflt |-> <<"TentativeReject">>,
       object |-> "", leaf |-> TRUE],
      [name |-> "TentativeAcceptActivity", base |-> "AcceptActivity", type |-> "str", deflt |-> <<"TentativeAccept">>,
       object |-> "", leaf |-> TRUE],
      [name |-> "TravelActivity", base |-> "IntransitiveActivity", type |-> "str", deflt |-> <<"Travel">>,
       object |-> "", leaf |-> TRUE],
      [name |-> "UndoActivity", base |-> "BaseActivity", type |-> "str", deflt |-> <<"Undo">>,
       object |-> "", leaf |-> TRUE],
      [name |-> "UpdateActivity", base |-> "BaseActivity", type |-> "str", deflt |-> <<"Update">>,
       object |-> "", leaf |-> TRUE],
      [name |-> "ViewActivity", base |-> "BaseActivity", type |-> "str", deflt |-> <<"View">>,
       object |-> "", leaf |-> TRUE],
      [name |-> "ApplicationActor", base |-> "BaseActor", type |-> "str", deflt |-> <<"Application">>,
       object |-> "", leaf |-> TRUE],
      [name |-> "GroupActor", base |-> "BaseActor", type |-> "str", deflt |-> <<"Group">>,
       object |-> "", leaf |-> TRUE],
      [name |-> "OrganizationActor", base |-> "BaseActor", type |-> "str", deflt |-> <<"Organization">>,
       object |-> "", leaf |-> TRUE],
      [name |-> "PersonActor", base |-> "BaseActor", type |-> "str", deflt |-> <<"Person">>,
       object |-> "", leaf |-> TRUE],
      [name |-> "ServiceActor", base |-> "BaseActor", type |-> "str", deflt |-> <<"Service">>,
       object |-> "", leaf |-> TRUE],
      [name |-> "ArticleObject", base |-> "BaseObject", type |-> "str", deflt |-> <<"Article">>,
       object |-> "", leaf |-> TRUE],
      [name |-> "DocumentObject", base |-> "BaseObject", type |-> "str", deflt |-> <<"Document">>,
       object |-> "", leaf |-> TRUE],
      [name |-> "AudioObject", base |-> "DocumentObject", type |-> "str", deflt |-> <<"Audio">>,
       object |-> "", leaf |-> TRUE],
      [name |-> "EventObject", base |-> "BaseObject", type |-> "str", deflt |-> <<"Event">>,
       object |-> "", leaf |-> TRUE],
      [name |-> "ImageObject", base |-> "DocumentObject", type |-> "str", deflt |-> <<"Image">>,
       object |-> "", leaf |-> TRUE],
      [name |-> "NoteObject", base |-> "BaseObject", type |-> "str", deflt |-> <<"Note">>,
       object |-> "", leaf |-> TRUE],
      [name |-> "PageObject", base |-> "DocumentObject", type |-> "str", deflt |-> <<"Page">>,
       object |-> "", leaf |-> TRUE],
      [name |-> "PlaceObject", base |-> "BaseObject", type |-> "str", deflt |-> <<"Place">>,
       object |-> "", leaf |-> TRUE],
      [name |-> "ProfileObject", base |-> "BaseObject", type |-> "str", deflt |-> <<"Profile">>,
       object |-> "", leaf |-> TRUE],
      [name |-> "RelationshipObject", base |-> "BaseObject", type |-> "str", deflt |-> <<"Relationship">>,
       object |-> "ref1", leaf |-> TRUE],
      [name |-> "TombstoneObject", base |-> "BaseObject", type |-> "str", deflt |-> <<"Tombstone">>,
       object |-> "", leaf |-> TRUE],
      [name |-> "VideoObject", base |-> "DocumentObject", type |-> "str", deflt |-> <<"Video">>,
       object |-> "", leaf |-> TRUE],
      [name |-> "MentionLink", base |-> "BaseLink", type |-> "str", deflt |-> <<"Mention">>,
       object |-> "", leaf |-> TRUE]
    }

ClassNames == {c.name : c \in ClassDefs}

ClassDef(cls) == CHOOSE c \in ClassDefs : c.name = cls

\* The nearest class, from cls up its bases, that declares the type field.
RECURSIVE TypeDecl(_)
TypeDecl(cls) ==
    IF ClassDef(cls).type # "" THEN ClassDef(cls)
    ELSE TypeDecl(ClassDef(cls).base)

\* The annotation of the object field cls has ("" when it has none).
RECURSIVE ObjectDecl(_)
ObjectDecl(cls) ==
    IF cls = "BaseModel" THEN ""
    ELSE IF ClassDef(cls).object # "" THEN ClassDef(cls).object
    ELSE ObjectDecl(ClassDef(cls).base)

RECURSIVE Extends(_, _)
Extends(cls, base) ==
    /\ cls # "BaseModel"
    /\ \/ cls = base
       \/ Extends(ClassDef(cls).base, base)

\* BaseActivity.type: the Literal of activity kinds.
ActivityKinds ==
    { "Accept", "Add", "Announce", "Arrive", "Block", "Create", "Delete",
      "Dislike", "Flag", "Follow", "Ignore", "Invite", "Join", "Leave",
      "Like", "Listen", "Move", "Offer", "Question", "Reject", "Read",
      "Remove", "TentativeReject", "TentativeAccept", "Travel", "Undo",
      "Update", "View" }

\* The fields BaseActor declares without a default.
ActorRequired == {"manuallyApprovesFollowers", "discoverable", "name"}

\* The default of activitypub_context: Python strings and a term map,
\* which are not validated.
ContextDefault ==
    JList(<< Item("str", Canonical), Item("str", Security),
             Item("dict", <<"terms">>) >>)

\* pydantic's validation of a supplied @context against
\* Optional[Union[HttpUrl, List[Union[HttpUrl, Dict[str, Any]]]]]: a string
\* becomes a Url object, a list a list of Url objects and dicts.
ParseContext(v) ==
    CASE v.kind = "null" -> [ok |-> TRUE, value |-> v]
      [] v.kind = "str" ->
            [ok |-> IsHttpUrl(v.s),
             value |-> [kind |-> "Url", s |-> v.s, items |-> <<>>]]
      [] v.kind = "list" ->
            [ok |-> \A i \in 1..Len(v.items) :
                       \/ v.items[i].kind = "dict"
                       \/ v.items[i].kind = "str" /\ IsHttpUrl(v.items[i].s),
             value |-> JList([i \in 1..Len(v.items) |->
                          IF v.items[i].kind = "str"
                          THEN Item("Url", v.items[i].s)
                          ELSE v.items[i]])]
      [] OTHER -> [ok |-> FALSE, value |-> v]

\* x == y for a list element x and a Python string y: a Url object or a
\* dict equals no string.
PyEqStr(x, y) == x.kind = "str" /\ x.s = y

\* ActivityStreamsBase.validate_context(value): TRUE when it returns the
\* value, FALSE when it raises ValueError.
validate_context(value) ==
    /\ ~ (value.kind = "str" /\ ~StrContains(value.s, Canonical))
    /\ ~ (value.kind = "list"
          /\ ~ \E i \in 1..Len(value.items) : PyEqStr(value.items[i], Canonical))

\* The activitypub_context field of an instance built from a payload.
ContextField(v) ==
    IF v.kind = "absent" THEN [ok |-> TRUE, value |-> ContextDefault]
    ELSE LET parsed == ParseContext(v)
         IN IF ~parsed.ok THEN parsed
            ELSE [ok |-> validate_context(parsed.value), value |-> parsed.value]

\* The type field of an instance of cls built from a payload.
TypeField(cls, v) ==
    LET decl == TypeDecl(cls)
    IN IF v.kind = "absent"
       THEN [ok |-> TRUE,
             value |-> IF decl.deflt = <<>> THEN JNull ELSE JStr(decl.deflt)]
       ELSE [ok |-> CASE decl.type = "optstr" -> v.kind \in {"str", "null"}
                      [] decl.type = "str" -> v.kind = "str"
                      [] OTHER -> v.kind = "str" /\ Len(v.s) = 1
                                  /\ v.s[1] \in ActivityKinds,
             value |-> v]

\* Union[HttpUrl, 'BaseObject', 'BaseLink']: a URL or an inline dict.
RefOk(kind, s) ==
    \/ kind = "str" /\ IsHttpUrl(s)
    \/ kind = "dict"

\* BaseActivity.object: Optional[Union[HttpUrl, 'BaseObject', 'BaseLink',
\* List[Union[HttpUrl, 'BaseObject', 'BaseLink']]]].
ActivityObjectOk(v) ==
    \/ v.kind = "null"
    \/ RefOk(v.kind, v.s)
    \/ v.kind = "list"
       /\ \A i \in 1..Len(v.items) : RefOk(v.items[i].kind, v.items[i].s)

\* An IntransitiveActivity that does not re-annotate object and so keeps
\* BaseActivity's.
IntransitiveObjectInherited(v) == ActivityObjectOk(v)

\* IntransitiveActivity.object: None.
IntransitiveObjectOk(v) == v.kind = "null"

\* RelationshipObject.object: Union[HttpUrl, BaseObject].
RelationshipObjectOk(v) == RefOk(v.kind, v.s)

\* The object entry of a payload, for an instance of cls: a class without
\* the field ignores the entry.
ObjectField(cls, v) ==
    LET ann == ObjectDecl(cls)
    IN \/ v.kind = "absent"
       \/ ann = ""
       \/ ann = "refs" /\ ActivityObjectOk(v)
       \/ ann = "none" /\ IntransitiveObjectOk(v)
       \/ ann = "ref1" /\ RelationshipObjectOk(v)

\* BaseActor.inbox / BaseActor.outbox:
\* Union[HttpUrl, OrderedCollection] = Field(None, ...).  A payload without
\* the field takes the default, None, which is not validated; a supplied
\* value must be a URL or an inline collection.  Another class ignores it.
BoxField(cls, v) ==
    IF ~Extends(cls, "BaseActor") THEN [ok |-> TRUE, value |-> JAbsent]
    ELSE IF v.kind = "absent" THEN [ok |-> TRUE, value |-> JNull]
    ELSE [ok |-> (v.kind = "str" /\ IsHttpUrl(v.s)) \/ v.kind = "dict",
          value |-> v]

\* The languages pycountry.languages.lookup finds, among the tags of the
\* model.
KnownLanguages == {"en", "fr"}

\* validate_language_codes(code).
validate_language_codes(code) == code \in KnownLanguages

\* BaseLink.validate_lang_code(v), the validator of hreflang and name_map:
\* "" when it returns v, else the exception it raises.  It reads v.keys(),
\* which a map has and a string or None has not.
validate_lang_code(v) ==
    IF v.kind # "map" THEN "AttributeError"
    ELSE LET wrong_lang_code ==
                {v.s[i] : i \in {j \in 1..Len(v.s) :
                                   ~validate_language_codes(v.s[j])}}
         IN IF wrong_lang_code # {} THEN "ValueError" ELSE ""

\* A field of a BaseLink that validate_lang_code validates (hreflang:
\* Optional[str], name_map: Optional[Dict[str, str]]): "" when the value is
\* taken, "ValidationError" when pydantic rejects it, else the exception
\* that escapes the construction.  A validator runs on a supplied value of
\* the annotated type; pydantic turns its ValueError into a validation
\* error and lets any other exception through.
LangField(cls, v, typeKinds) ==
    IF ~Extends(cls, "BaseLink") \/ v.kind = "absent" THEN ""
    ELSE IF v.kind \notin typeKinds THEN "ValidationError"
    ELSE IF validate_lang_code(v) = "ValueError" THEN "ValidationError"
    ELSE validate_lang_code(v)

\* The entries of a payload that name no field of cls and that the
\* instance keeps: Config sets populate_by_name only, so pydantic's default,
\* extra = 'ignore', drops them.
ExtraKept(cls, extra) == {}

\* cls(**payload): the fields pydantic reports in its ValidationError (none
\* when the instance is built), the exception other than ValidationError
\* that escapes ("" when none) and, of the instance, the type, the context,
\* the inbox and outbox and the entries kept beyond the declared fields.
Construct(cls, payload) ==
    LET ctx == ContextField(payload.context)
        typ == TypeField(cls, payload.type)
        inbox == BoxField(cls, payload.inbox)
        outbox == BoxField(cls, payload.outbox)
        hreflang == LangField(cls, payload.hreflang, {"str", "null"})
        nameMap == LangField(cls, payload.nameMap, {"map", "null"})
        errors ==
            (IF ctx.ok THEN {} ELSE {"@context"})
            \cup (IF typ.ok THEN {} ELSE {"type"})
            \cup (IF ObjectField(cls, payload.object) THEN {} ELSE {"object"})
            \cup (IF Extends(cls, "BaseActor")
                  THEN ActorRequired \ payload.given ELSE {})
            \cup (IF inbox.ok THEN {} ELSE {"inbox"})
            \cup (IF outbox.ok THEN {} ELSE {"outbox"})
            \cup (IF hreflang = "ValidationError" THEN {"hreflang"} ELSE {})
            \cup (IF nameMap = "ValidationError" THEN {"nameMap"} ELSE {})
        raised == IF hreflang \notin {"", "ValidationError"} THEN hreflang
                  ELSE IF nameMap \notin {"", "ValidationError"} THEN nameMap
                  ELSE ""
        built == errors = {} /\ raised = ""
    IN [cls |-> cls, payload |-> payload,
        errors |-> IF raised = "" THEN errors ELSE {},
        raised |-> raised,
        type |-> IF built THEN typ.value ELSE JAbsent,
        context |-> IF built THEN ctx.value ELSE JAbsent,
        inbox |-> IF built THEN inbox.value ELSE JAbsent,
        outbox |-> IF built THEN outbox.value ELSE JAbsent,
        extra |-> IF built THEN ExtraKept(cls, payload.extra) ELSE {}]

(***************************************************************************)
(* The state: one use of the library at a time.  Either a pair of digest   *)
(* calls, or a request that is composed, signed with generate_signature,   *)
(* carried over the network (where one thing may be changed) and checked   *)
(* with verify_signature.                                                   *)
(***************************************************************************)
VARIABLES
    phase,      \* "idle", "digest", "composed", "signed", "signfail",
                \* "tampered", "verified"
    method,     \* the HTTP method of the request
    body,       \* the raw body the sender composed, or NoBody
    rbody,      \* the raw body the receiver got, or NoBody
    headers,    \* the headers of the request, a dict from names to values
    signRes,    \* what generate_signature did: "none", "ok", "raised"
    signed,     \* the header list generate_signature signed
    tamper,     \* what was changed in transit
    pubkey,     \* the public key verify_signature was given
    verdict,    \* what verify_signature returned or raised
    dcall,      \* the arguments and result of a verify_digest call
    doc         \* the class, the payload and the result of a construction

vars == <<phase, method, body, rbody, headers, signRes, signed, tamper,
          pubkey, verdict, dcall, doc>>

\* The request path, the key id and the keys of the model.
Path == "/inbox"
KeyId == "https://a.example/users/alice#main-key"
PrivateKey == "privA"
PublicKeys == {"pubA", "pubB"}
Methods == {"POST", "GET"}

\* The headers a sender may set besides the digest, and their values.
PlainHeaders == {"host", "date", "content-type"}

HeaderValue(name) ==
    CASE name = "host" -> <<"b.example">>
      [] name = "date" -> <<"Tue, 07 May 2024 17:50:50 GMT">>
      [] OTHER -> <<"application/activity+json">>

\* The spellings of the digest header's name.
DigestKeys == {"digest", "Digest"}

NoCall == [from |-> <<>>, body |-> <<>>, form |-> "", received |-> <<>>,
           result |-> FALSE]

\* The payloads of the model.
ContextChoices ==
    { JAbsent, JNull, JStr(Canonical), JStr(OtherNs), JStr(Embedding),
      JStr(NotAUrl),
      JList(<< Item("str", Canonical) >>),
      JList(<< Item("str", Canonical), Item("str", Security),
               Item("dict", <<"terms">>) >>),
      JList(<< Item("str", Security) >>),
      JList(<< Item("str", OtherNs), Item("dict", <<"terms">>) >>) }

TypeChoices(cls) ==
    { JAbsent, JNull, JStr(<<"Follow">>), JStr(<<"follow">>),
      JStr(<<"Frobnicate">>) }
    \cup (IF TypeDecl(cls).deflt = <<>> THEN {}
          ELSE {JStr(TypeDecl(cls).deflt)})

ObjectChoices ==
    { JAbsent, JNull, JStr(ActorUri), JStr(NotAUrl), JDict("Note"),
      JDict("Link"),
      JList(<< Item("str", ActorUri), Item("dict", <<"Note">>) >>) }

\* The required actor fields a payload gives: all, or all but one, for an
\* actor class; none for another class.
GivenChoices(cls) ==
    IF Extends(cls, "BaseActor")
    THEN {ActorRequired} \cup {ActorRequired \ {f} : f \in ActorRequired}
    ELSE {{}}

\* What a payload gives for inbox and for outbox.
BoxChoices ==
    { JAbsent, JNull, JStr(ActorUri), JStr(NotAUrl),
      JDict("OrderedCollection") }

\* What a payload gives for hreflang and for nameMap.
HreflangChoices == { JAbsent, JNull, JStr(<<"en">>), JStr(<<"xx-zzzz">>) }

NameMapChoices == { JAbsent, JMap(<<"en">>), JMap(<<"en", "xx-zzzz">>) }

\* The entries a payload may have that name no field of any class.
ExtraFields == {"likes", "quoteUrl"}

\* A payload with nothing in it.
EmptyPayload ==
    [context |-> JAbsent, type |-> JAbsent, object |-> JAbsent, given |-> {},
     inbox |-> JAbsent, outbox |-> JAbsent, hreflang |-> JAbsent,
     nameMap |-> JAbsent, extra |-> {}]

\* The payloads a class is constructed from: those that vary @context,
\* type and object; for an actor class, those that vary inbox and outbox;
\* for a link class, those that vary hreflang and nameMap; for the envelope
\* class, those that carry entries beyond its fields.
Payloads(cls) ==
    { [EmptyPayload EXCEPT !.context = c, !.type = t, !.object = o,
                           !.given = g] :
         c \in ContextChoices, t \in TypeChoices(cls), o \in ObjectChoices,
         g \in GivenChoices(cls) }
    \cup (IF Extends(cls, "BaseActor")
          THEN { [EmptyPayload EXCEPT !.context = c, !.given = g,
                                      !.inbox = i, !.outbox = o] :
                    c \in {JAbsent, JStr(Canonical)},
                    g \in GivenChoices(cls),
                    i \in BoxChoices, o \in BoxChoices }
          ELSE {})
    \cup (IF Extends(cls, "BaseLink")
          THEN { [EmptyPayload EXCEPT !.context = c, !.hreflang = h,
                                      !.nameMap = n] :
                    c \in {JAbsent, JStr(Canonical)},
                    h \in HreflangChoices, n \in NameMapChoices }
          ELSE {})
    \cup (IF cls = "ActivityStreamsBase"
          THEN { [EmptyPayload EXCEPT !.context = c, !.type = t,
                                      !.extra = x] :
                    c \in ContextChoices, t \in TypeChoices(cls),
                    x \in SUBSET ExtraFields }
          ELSE {})

NoDoc == [cls |-> "", payload |-> EmptyPayload,
          errors |-> {}, raised |-> "", type |-> JAbsent,
          context |-> JAbsent, inbox |-> JAbsent, outbox |-> JAbsent,
          extra |-> {}]

Init ==
    /\ phase = "idle"
    /\ method = ""
    /\ body = NoBody
    /\ rbody = NoBody
    /\ headers = <<>>
    /\ signRes = "none"
    /\ signed = <<>>
    /\ tamper = "none"
    /\ pubkey = ""
    /\ verdict = ""
    /\ dcall = NoCall
    /\ doc = NoDoc

\* A digest is generated for one body and verify_digest is called with
\* another (or the same) body and the digest, given either as the value
\* generate_digest returned or as the value of the Digest header.
DigestCall ==
    /\ phase = "idle"
    /\ \E b \in Bodies, b2 \in Bodies, form \in {"value", "header"} :
          LET received == IF form = "value" THEN generate_digest(b)[2]
                          ELSE DigestHeaderValue(b)
          IN dcall' = [from |-> b, body |-> b2, form |-> form,
                       received |-> received,
                       result |-> verify_digest(b2, received)]
    /\ phase' = "digest"
    /\ UNCHANGED <<method, body, rbody, headers, signRes, signed, tamper,
                   pubkey, verdict, doc>>

\* A sender composes a request: a method, a body or none, some of the plain
\* headers and, only with a body, possibly a digest header.
Compose ==
    /\ phase = "idle"
    /\ \E m \in Methods, b \in Bodies \cup {NoBody},
          names \in SUBSET PlainHeaders, dkeys \in SUBSET DigestKeys :
          /\ Cardinality(dkeys) <= 1
          /\ b = NoBody => dkeys = {}
          /\ method' = m
          /\ body' = b
          /\ rbody' = b
          /\ headers' = [k \in names \cup dkeys |->
                            IF k \in DigestKeys THEN DigestHeaderValue(b)
                            ELSE HeaderValue(k)]
    /\ phase' = "composed"
    /\ UNCHANGED <<signRes, signed, tamper, pubkey, verdict, dcall, doc>>

\* The sender calls generate_signature on the request.
GenerateSignature ==
    /\ phase = "composed"
    /\ LET r == generate_signature(Path, KeyId, PrivateKey, headers,
                                   "rsa-sha256", method)
       IN IF r.raised # ""
          THEN /\ phase' = "signfail"
               /\ signRes' = "raised"
               /\ UNCHANGED <<headers, signed>>
          ELSE /\ phase' = "signed"
               /\ signRes' = "ok"
               /\ headers' = r.headers
               /\ signed' = r.signed
    /\ UNCHANGED <<method, body, rbody, tamper, pubkey, verdict, dcall, doc>>

\* In transit, one byte of the signature value is changed.
FlipSignatureByte ==
    /\ phase = "signed"
    /\ headers' = [headers EXCEPT !["signature"] =
                      [i \in 1..Len(@) |->
                          IF @[i][1] = "signature"
                          THEN <<"signature", <<[@[i][2][1] EXCEPT !.flip = 1]>>>>
                          ELSE @[i]]]
    /\ tamper' = "flip"
    /\ phase' = "tampered"
    /\ UNCHANGED <<method, body, rbody, signRes, signed, pubkey, verdict, dcall, doc>>

\* In transit, one header is dropped.
DropHeader ==
    /\ phase = "signed"
    /\ \E h \in DOMAIN headers :
          /\ headers' = [k \in DOMAIN headers \ {h} |-> headers[k]]
          /\ tamper' = IF h = "signature" THEN "dropsignature" ELSE "dropheader"
    /\ phase' = "tampered"
    /\ UNCHANGED <<method, body, rbody, signRes, signed, pubkey, verdict, dcall, doc>>

\* In transit, one parameter of the Signature header is removed.
StripSignatureParam ==
    /\ phase = "signed"
    /\ \E p \in {"keyId", "algorithm", "signature", "headers"} :
          /\ headers' = [headers EXCEPT !["signature"] =
                            SelectSeq(@, LAMBDA kv : kv[1] # p)]
          /\ tamper' = "strip"
    /\ phase' = "tampered"
    /\ UNCHANGED <<method, body, rbody, signRes, signed, pubkey, verdict, dcall, doc>>

\* In transit, the body is replaced by another one; the headers stay.
TamperBody ==
    /\ phase = "signed"
    /\ body # NoBody
    /\ \E b2 \in Bodies \ {body} : rbody' = b2
    /\ tamper' = "body"
    /\ phase' = "tampered"
    /\ UNCHANGED <<method, body, headers, signRes, signed, pubkey, verdict, dcall, doc>>

\* The receiver calls verify_signature on the request it got, signed or
\* not, with the public key it resolved.
VerifySignature ==
    /\ phase \in {"composed", "signed", "tampered"}
    /\ \E pub \in PublicKeys :
          /\ pubkey' = pub
          /\ verdict' = verify_signature(Path, pub, headers, method)
    /\ phase' = "verified"
    /\ UNCHANGED <<method, body, rbody, headers, signRes, signed, tamper, dcall, doc>>

\* A document is constructed from a payload.
ConstructDocument ==
    /\ phase = "idle"
    /\ \E cls \in ClassNames :
       \E payload \in Payloads(cls) : doc' = Construct(cls, payload)
    /\ phase' = "doc"
    /\ UNCHANGED <<method, body, rbody, headers, signRes, signed, tamper,
                   pubkey, verdict, dcall>>

Next ==
    \/ ConstructDocument
    \/ DigestCall
    \/ Compose
    \/ GenerateSignature
    \/ FlipSignatureByte
    \/ DropHeader
    \/ StripSignatureParam
    \/ TamperBody
    \/ VerifySignature

Spec == Init /\ [][Next]_vars

(***************************************************************************)
(* The properties.                                                         *)
(***************************************************************************)

\* C1: digest round trip.  verify_digest of a body and the digest value
\* generate_digest returned for a body is true when the two bodies are the
\* same and false when they differ.
C1_DigestRoundTrip ==
    (phase = "digest" /\ dcall.form = "value")
        => (dcall.result <=> (dcall.body = dcall.from))

\* C1: a digest made for one body is checked against another body of the
\* same length and refused.
C1_Witness ==
    /\ phase = "digest"
    /\ dcall.form = "value"
    /\ dcall.body # dcall.from
    /\ Len(dcall.body) = Len(dcall.from)
    /\ ~dcall.result

\* C2: signature round trip.  The headers generate_signature returned are
\* accepted by verify_signature with the same path and method and the
\* matching public key; with one byte of the signature value changed they
\* are not accepted.
C2_SignatureRoundTrip ==
    (phase = "verified" /\ signRes = "ok" /\ pubkey = "pubA")
        => /\ tamper = "none" => verdict = "True"
           /\ tamper = "flip" => verdict # "True"

\* C2: a signed request that carries a digest, unchanged, was accepted.
C2_Witness ==
    /\ phase = "verified"
    /\ signRes = "ok"
    /\ pubkey = "pubA"
    /\ tamper = "none"
    /\ "digest" \in DOMAIN headers
    /\ verdict = "True"

\* The base64 value a Digest header carries: what follows the first "=".
RECURSIVE DigestValueOf(_)
DigestValueOf(text) ==
    IF text = <<>> THEN <<>>
    ELSE IF Head(text) = "=" THEN Tail(text)
    ELSE DigestValueOf(Tail(text))

\* C3: a request with a body whose base64 SHA-256 differs from the value
\* in its Digest header is never authenticated.
C3_DigestMismatchNeverAuthenticated ==
    (/\ phase = "verified"
     /\ rbody # NoBody
     /\ "digest" \in DOMAIN headers
     /\ DigestValueOf(headers["digest"]) # generate_digest(rbody)[2])
        => verdict # "True"

\* The header names the Signature header's headers parameter lists.
ListedHeaders ==
    LET text == headers["signature"]
        found == ReSearchHeaders(text)
    IN IF found = {} THEN {}
       ELSE LET fields == SplitSpace(text[CHOOSE i \in found : TRUE][2])
            IN {fields[i] : i \in 1..Len(fields)}

\* C4: when the headers parameter lists a header the request does not
\* have, verify_signature returns a rejection (False).
C4_ListedHeaderAbsentRejected ==
    (/\ phase = "verified"
     /\ "signature" \in DOMAIN headers
     /\ (ListedHeaders \ {"(request-target)"}) \ DOMAIN headers # {})
        => verdict = "False"

\* The parameters the Signature header has.
SignatureParams ==
    {headers["signature"][i][1] : i \in 1..Len(headers["signature"])}

\* C5: when the Signature header is missing, or lacks one of keyId,
\* algorithm, headers and signature, verify_signature returns a rejection
\* (False).
C5_SignatureHeaderMissingRejected ==
    (/\ phase = "verified"
     /\ \/ "signature" \notin DOMAIN headers
        \/ {"keyId", "algorithm", "headers", "signature"} \ SignatureParams # {})
        => verdict = "False"

\* The names in a header list.
Names(list) == {list[i] : i \in 1..Len(list)}

\* C6: the header list generate_signature signs has (request-target), and
\* has digest and content-type exactly when the request carries a digest.
C6_HeaderSelection ==
    phase = "signed"
        => /\ "(request-target)" \in Names(signed)
           /\ "digest" \in Names(signed) <=> "digest" \in DOMAIN headers
           /\ "content-type" \in Names(signed) <=> "digest" \in DOMAIN headers

\* C7 as stated: verify_digest of a body and the Digest header value
\* SHA-256=<base64> of that body is true.
C7_HeaderValueVerifies ==
    (phase = "digest" /\ dcall.form = "header" /\ dcall.body = dcall.from)
        => dcall.result

\* C7 as amended: verify_digest compares its argument, as given, with the
\* bare base64 digest.  For a body and its own digest it is true of the
\* value generate_digest returned and false of the Digest header value
\* SHA-256=<base64>.
C7_BareValueVerifies ==
    (phase = "digest" /\ dcall.body = dcall.from)
        => (dcall.result <=> dcall.form = "value")

\* C7: the Digest header value of a body was checked against that body and
\* refused.
C7_Witness ==
    /\ phase = "digest"
    /\ dcall.form = "header"
    /\ dcall.body = dcall.from
    /\ dcall.body # <<>>
    /\ ~dcall.result

\* Whether a supplied @context holds the canonical URI: equals it, or is a
\* list with it as an element.
HoldsCanonical(v) ==
    \/ v.kind = "str" /\ v.s = Canonical
    \/ v.kind = "list"
       /\ \E i \in 1..Len(v.items) : v.items[i] = Item("str", Canonical)

\* C8: a supplied @context (a URI or a list) is accepted exactly when it
\* holds the canonical namespace URI.
C8_ContextRule ==
    (phase = "doc" /\ doc.payload.context.kind \in {"str", "list"})
        => ("@context" \notin doc.errors <=> HoldsCanonical(doc.payload.context))

\* C9: an intransitive activity is rejected, with an error on object,
\* exactly when its payload has an object that is not null.
C9_IntransitiveRejectsObject ==
    (phase = "doc" /\ Extends(doc.cls, "IntransitiveActivity"))
        => ("object" \in doc.errors
               <=> doc.payload.object.kind \notin {"absent", "null"})

\* C9: a Question whose payload has a list as object was rejected.
C9_Witness ==
    /\ phase = "doc"
    /\ doc.cls = "QuestionActivity"
    /\ doc.payload.object.kind = "list"
    /\ "object" \in doc.errors

\* C10: an instance of a leaf class has the leaf's literal as type, and a
\* payload with another string as type is rejected.
C10_LeafFixesType ==
    (phase = "doc" /\ ClassDef(doc.cls).leaf)
        => /\ doc.errors = {} => doc.type = JStr(ClassDef(doc.cls).deflt)
           /\ (doc.payload.type.kind = "str"
               /\ doc.payload.type.s # ClassDef(doc.cls).deflt)
                  => "type" \in doc.errors

\* C11: an actor built from a payload without inbox or without outbox is
\* rejected, and an actor that is built has an inbox and an outbox, each a
\* URI or an inline collection.
C11_InboxOutboxMandatory ==
    (phase = "doc" /\ Extends(doc.cls, "BaseActor"))
        => /\ ("absent" \in {doc.payload.inbox.kind, doc.payload.outbox.kind})
                  => doc.errors # {}
           /\ (doc.errors = {} /\ doc.raised = "")
                  => /\ doc.inbox.kind \in {"str", "dict"}
                     /\ doc.outbox.kind \in {"str", "dict"}

\* C12: a link built from a payload with a string as hreflang ends in a
\* link (a valid tag) or in a validation error on hreflang (an invalid
\* one), and no other exception escapes.
C12_HreflangNeverThrows ==
    (phase = "doc" /\ Extends(doc.cls, "BaseLink")
     /\ doc.payload.hreflang.kind = "str")
        => /\ doc.raised = ""
           /\ "hreflang" \in doc.errors
                 <=> ~validate_language_codes(doc.payload.hreflang.s[1])

\* The discriminators of the leaf classes.
LeafLiterals == {c.deflt : c \in {d \in ClassDefs : d.leaf}}

\* C13: a payload with the canonical context and a type that is no leaf's
\* is built as an envelope document that keeps the type and every entry of
\* the payload.
C13_GenericKeepsFields ==
    (/\ phase = "doc"
     /\ doc.cls = "ActivityStreamsBase"
     /\ doc.payload.type.kind = "str"
     /\ doc.payload.type.s \notin LeafLiterals
     /\ HoldsCanonical(doc.payload.context))
        => /\ doc.errors = {}
           /\ doc.raised = ""
           /\ doc.type = doc.payload.type
           /\ doc.extra = doc.payload.extra

====
